---- MODULE Spec2Model ----
(***************************************************************************)
(* Sugeno fuzzy simulator: membership functions, rule engine, weighted     *)
(* average defuzzifier (fuzzy.py) and the categorical evaluator            *)
(* (evaluation.py).                                                        *)
(*                                                                         *)
(* Numbers.  A Python/numpy float is modelled as an exact rational         *)
(* <<n, d>> in lowest terms with d > 0.  The IEEE special values that a    *)
(* numpy division can produce are <<0,0>> (nan), <<1,0>> (inf) and         *)
(* <<-1,0>> (-inf).  Python's None is the empty tuple <<>>.                *)
(***************************************************************************)
EXTENDS Integers, Sequences, FiniteSets, TLC

VARIABLES pc, op, arg, ret, exc

vars == <<pc, op, arg, ret, exc>>

(***************************************************************************)
(* Bounds of the model.                                                    *)
(***************************************************************************)
Grid == 2          \* inputs are sampled at multiples of 1/Grid
MaxParam == 3      \* breakpoints of the probed shapes range over 0..MaxParam
DegDen == 2        \* degrees handed to fuzzy_rules are multiples of 1/DegDen
MaxNonZero == 1    \* at most this many non-zero degrees in a complete mapping
MaxRules == 3      \* longest sequence handed directly to defuzzification
MaxStrength == 3   \* strengths handed to defuzzification are k/10, k <= MaxStrength
MaxRows == 2       \* longest data frame handed to the evaluator

(***************************************************************************)
(* Rational arithmetic.                                                    *)
(***************************************************************************)
None == <<>>
NaN == <<0, 0>>
PosInf == <<1, 0>>
NegInf == <<-1, 0>>

Abs(n) == IF n < 0 THEN -n ELSE n

RECURSIVE GCD(_, _)
GCD(m, n) == IF n = 0 THEN m ELSE GCD(n, m % n)

\* the rational n/d, d > 0, in lowest terms
Q(n, d) == LET g == GCD(Abs(n), d) IN <<n \div g, d \div g>>

IsNum(p) == Len(p) = 2 /\ p[2] > 0

Zero == <<0, 1>>
One == <<1, 1>>

Add(p, q) == Q(p[1] * q[2] + q[1] * p[2], p[2] * q[2])
Sub(p, q) == Q(p[1] * q[2] - q[1] * p[2], p[2] * q[2])
Mul(p, q) == Q(p[1] * q[1], p[2] * q[2])
Lt(p, q) == p[1] * q[2] < q[1] * p[2]
Leq(p, q) == p[1] * q[2] <= q[1] * p[2]

\* numpy true division: a zero divisor yields nan or +-inf, never an exception
Div(p, q) ==
  IF q[1] = 0
    THEN (IF p[1] = 0 THEN NaN ELSE IF p[1] > 0 THEN PosInf ELSE NegInf)
    ELSE IF q[1] > 0 THEN Q(p[1] * q[2], p[2] * q[1])
    ELSE Q(-(p[1] * q[2]), p[2] * (-q[1]))

\* float(i) for an integer i
ToFloat(i) == <<i, 1>>

(***************************************************************************)
(* Fuzzy set tables.                                                       *)
(***************************************************************************)
PH_RANGES ==
  [t \in {"Asam", "Optimal", "Basa"} |->
     CASE t = "Asam" -> <<0, 0, 6, 7>>
       [] t = "Optimal" -> <<6, 7, 8>>
       [] t = "Basa" -> <<7, 8, 14, 14>>]

TDS_RANGES ==
  [t \in {"Sangat Rendah", "Rendah", "Optimal", "Tinggi"} |->
     CASE t = "Sangat Rendah" -> <<0, 0, 400, 600>>
       [] t = "Rendah" -> <<400, 600, 900, 1100>>
       [] t = "Optimal" -> <<900, 1100, 1800, 2000>>
       [] t = "Tinggi" -> <<1800, 2000, 3000, 3000>>]

TEMPERATURE_RANGES ==
  [t \in {"Dingin", "Optimal", "Panas"} |->
     CASE t = "Dingin" -> <<0, 0, 23, 25>>
       [] t = "Optimal" -> <<24, 27, 30>>
       [] t = "Panas" -> <<28, 30, 45, 45>>]

explode_array(arr) == [i \in DOMAIN arr |-> ToFloat(arr[i])]

(***************************************************************************)
(* Scalar membership functions.                                            *)
(***************************************************************************)
\* fungsi_segitiga with the rising edge divided by the whole base c - a
fungsi_segitiga_wide_rise(x, params) ==
  LET a == params[1]
      b == params[2]
      c == params[3]
  IN  IF Leq(x, a) \/ Leq(c, x) THEN Zero
      ELSE IF Lt(a, x) /\ Leq(x, b) THEN Div(Sub(x, a), Sub(c, a))
      ELSE IF Lt(b, x) /\ Lt(x, c) THEN Div(Sub(c, x), Sub(c, b))
      ELSE None

\* fungsi_segitiga with the operands of the falling edge swapped
fungsi_segitiga_negative_fall(x, params) ==
  LET a == params[1]
      b == params[2]
      c == params[3]
  IN  IF Leq(x, a) \/ Leq(c, x) THEN Zero
      ELSE IF Lt(a, x) /\ Leq(x, b) THEN Div(Sub(x, a), Sub(b, a))
      ELSE IF Lt(b, x) /\ Lt(x, c) THEN Div(Sub(x, c), Sub(c, b))
      ELSE None

fungsi_segitiga(x, params) ==
  LET a == params[1]
      b == params[2]
      c == params[3]
  IN  IF Leq(x, a) \/ Leq(c, x) THEN Zero
      ELSE IF Lt(a, x) /\ Leq(x, b) THEN Div(Sub(x, a), Sub(b, a))
      ELSE IF Lt(b, x) /\ Lt(x, c) THEN Div(Sub(c, x), Sub(c, b))
      ELSE None

\* fungsi_trapezium with the rising edge divided by the whole base d - a
fungsi_trapezium_wide_rise(x, params) ==
  LET a == params[1]
      b == params[2]
      c == params[3]
      d == params[4]
  IN  IF Leq(x, a) \/ Leq(d, x) THEN Zero
      ELSE IF Lt(a, x) /\ Leq(x, b) THEN Div(Sub(x, a), Sub(d, a))
      ELSE IF Lt(b, x) /\ Leq(x, c) THEN One
      ELSE IF Lt(c, x) /\ Lt(x, d) THEN Div(Sub(d, x), Sub(d, c))
      ELSE None

fungsi_trapezium(x, params) ==
  LET a == params[1]
      b == params[2]
      c == params[3]
      d == params[4]
  IN  IF Leq(x, a) \/ Leq(d, x) THEN Zero
      ELSE IF Lt(a, x) /\ Leq(x, b) THEN Div(Sub(x, a), Sub(b, a))
      ELSE IF Lt(b, x) /\ Leq(x, c) THEN One
      ELSE IF Lt(c, x) /\ Lt(x, d) THEN Div(Sub(d, x), Sub(d, c))
      ELSE None

ph_membership(x) ==
  [t \in {"Asam", "Optimal", "Basa"} |->
     CASE t = "Asam" -> fungsi_trapezium(x, explode_array(PH_RANGES["Asam"]))
       [] t = "Optimal" -> fungsi_segitiga(x, explode_array(PH_RANGES["Optimal"]))
       [] t = "Basa" -> fungsi_trapezium(x, explode_array(PH_RANGES["Basa"]))]

tds_membership(x) ==
  [t \in {"Sangat Rendah", "Rendah", "Optimal", "Tinggi"} |->
     CASE t = "Sangat Rendah" ->
            fungsi_trapezium(x, explode_array(TDS_RANGES["Sangat Rendah"]))
       [] t = "Rendah" -> fungsi_trapezium(x, explode_array(TDS_RANGES["Rendah"]))
       [] t = "Optimal" -> fungsi_trapezium(x, explode_array(TDS_RANGES["Optimal"]))
       [] t = "Tinggi" -> fungsi_trapezium(x, explode_array(TDS_RANGES["Tinggi"]))]

temp_membership(x) ==
  [t \in {"Dingin", "Optimal", "Panas"} |->
     CASE t = "Dingin" ->
            fungsi_trapezium(x, explode_array(TEMPERATURE_RANGES["Dingin"]))
       [] t = "Optimal" ->
            fungsi_segitiga(x, explode_array(TEMPERATURE_RANGES["Optimal"]))
       [] t = "Panas" ->
            fungsi_trapezium(x, explode_array(TEMPERATURE_RANGES["Panas"]))]

(***************************************************************************)
(* Rule engine.                                                            *)
(***************************************************************************)
\* (TDS, pH, Temp, Output)
rules ==
  <<
    <<"Sangat Rendah", "Asam", "Dingin", 1>>,
    <<"Sangat Rendah", "Asam", "Optimal", 1>>,
    <<"Sangat Rendah", "Asam", "Panas", 1>>,
    <<"Sangat Rendah", "Optimal", "Dingin", 1>>,
    <<"Sangat Rendah", "Optimal", "Optimal", 1>>,
    <<"Sangat Rendah", "Optimal", "Panas", 1>>,
    <<"Sangat Rendah", "Basa", "Dingin", 1>>,
    <<"Sangat Rendah", "Basa", "Optimal", 1>>,
    <<"Sangat Rendah", "Basa", "Panas", 1>>,
    <<"Rendah", "Asam", "Dingin", 1>>,
    <<"Rendah", "Asam", "Optimal", 1>>,
    <<"Rendah", "Asam", "Panas", 1>>,
    <<"Rendah", "Optimal", "Dingin", 1>>,
    <<"Rendah", "Optimal", "Optimal", 1>>,
    <<"Rendah", "Optimal", "Panas", 1>>,
    <<"Rendah", "Basa", "Dingin", 1>>,
    <<"Rendah", "Basa", "Optimal", 1>>,
    <<"Rendah", "Basa", "Panas", 1>>,
    <<"Optimal", "Asam", "Dingin", 1>>,
    <<"Optimal", "Asam", "Optimal", 1>>,
    <<"Optimal", "Asam", "Panas", 1>>,
    <<"Optimal", "Optimal", "Dingin", 1>>,
    <<"Optimal", "Optimal", "Optimal", 2>>,
    <<"Optimal", "Optimal", "Panas", 1>>,
    <<"Optimal", "Basa", "Dingin", 1>>,
    <<"Optimal", "Basa", "Optimal", 1>>,
    <<"Optimal", "Basa", "Panas", 1>>,
    <<"Tinggi", "Asam", "Dingin", 1>>,
    <<"Tinggi", "Asam", "Optimal", 1>>,
    <<"Tinggi", "Asam", "Panas", 1>>,
    <<"Tinggi", "Optimal", "Dingin", 1>>,
    <<"Tinggi", "Optimal", "Optimal", 1>>,
    <<"Tinggi", "Optimal", "Panas", 1>>,
    <<"Tinggi", "Basa", "Dingin", 1>>,
    <<"Tinggi", "Basa", "Optimal", 1>>,
    <<"Tinggi", "Basa", "Panas", 1>>
  >>

\* weights with those of pH and TDS exchanged
weights_swapped == [ph |-> Q(6, 10), tds |-> Q(2, 10), water_temp |-> Q(2, 10)]

weights == [ph |-> Q(2, 10), tds |-> Q(6, 10), water_temp |-> Q(2, 10)]

\* Python's min of three numbers
min(p, q, r) ==
  LET m == IF Lt(q, p) THEN q ELSE p
  IN  IF Lt(r, m) THEN r ELSE m

\* the rules whose three terms are keys of the degree mappings
Applicable(x1, x2, x3) ==
  SelectSeq(rules, LAMBDA rule :
    rule[1] \in DOMAIN x1 /\ rule[2] \in DOMAIN x2 /\ rule[3] \in DOMAIN x3)

\* a None degree makes the multiplication by the weight raise TypeError
fuzzy_rules_raises(x1, x2, x3) ==
  LET app == Applicable(x1, x2, x3)
  IN  \E i \in DOMAIN app :
        x1[app[i][1]] = None \/ x2[app[i][2]] = None \/ x3[app[i][3]] = None

fuzzy_rules(x1, x2, x3) ==
  LET app == Applicable(x1, x2, x3)
      results ==
        [i \in DOMAIN app |->
           [firing_strength |->
              min(Mul(x1[app[i][1]], weights.tds),
                  Mul(x2[app[i][2]], weights.ph),
                  Mul(x3[app[i][3]], weights.water_temp)),
            output |-> ToFloat(app[i][4])]]
  IN  IF results = <<>>
        THEN <<[firing_strength |-> Zero, output |-> Zero]>>
        ELSE results

(***************************************************************************)
(* Defuzzifier.                                                            *)
(***************************************************************************)
\* Python's sum: the terms are added from left to right, starting at 0
RECURSIVE SumFrom(_, _, _)
SumFrom(s, i, acc) ==
  IF i > Len(s) THEN acc
  ELSE LET a == Add(acc, s[i])
       IN  IF IsNum(a) THEN SumFrom(s, i + 1, a) ELSE NaN

sum(s) == SumFrom(s, 1, Zero)

\* round2 that truncates instead of rounding
round2_truncating(q) == Q((100 * q[1]) \div q[2], 100)

\* Python's round(q, 2): nearest multiple of 1/100, an exact tie to the even one
round2(q) ==
  LET s == 100 * q[1]
      fl == s \div q[2]
      rem == s - fl * q[2]
      k == IF 2 * rem < q[2] THEN fl
           ELSE IF 2 * rem > q[2] THEN fl + 1
           ELSE IF fl % 2 = 0 THEN fl ELSE fl + 1
  IN  Q(k, 100)

\* defuzzification whose numerator leaves out the output level
defuzzification_without_output(rs) ==
  LET numerator == sum([i \in DOMAIN rs |-> rs[i].firing_strength])
      denominator == sum([i \in DOMAIN rs |-> rs[i].firing_strength])
  IN  IF denominator = Zero THEN Zero
      ELSE round2(Div(numerator, denominator))

\* defuzzification that averages over the number of rules
defuzzification_mean(rs) ==
  LET numerator == sum([i \in DOMAIN rs |-> Mul(rs[i].firing_strength, rs[i].output)])
      denominator == ToFloat(Len(rs))
  IN  IF denominator = Zero THEN Zero
      ELSE round2(Div(numerator, denominator))

defuzzification(rs) ==
  LET numerator == sum([i \in DOMAIN rs |-> Mul(rs[i].firing_strength, rs[i].output)])
      denominator == sum([i \in DOMAIN rs |-> rs[i].firing_strength])
  IN  IF denominator = Zero THEN Zero
      ELSE round2(Div(numerator, denominator))

(***************************************************************************)
(* Pipeline entry point.                                                   *)
(***************************************************************************)
get_z_result_raises(row) ==
  fuzzy_rules_raises(tds_membership(row.tds), ph_membership(row.ph),
                     temp_membership(row.water_temp))

get_z_result(row) ==
  LET tds_mf == tds_membership(row.tds)
      ph_mf == ph_membership(row.ph)
      temp_mf == temp_membership(row.water_temp)
  IN  defuzzification(fuzzy_rules(tds_mf, ph_mf, temp_mf))

(***************************************************************************)
(* Categorical evaluator.  A string is a sequence of characters.  A cell   *)
(* of the data frame is a record [kind, val]: a string ("str"), None       *)
(* ("None") or a float nan ("nan", what pandas stores for a missing        *)
(* entry).  A data frame is [columns, rows].                               *)
(***************************************************************************)
Upper == <<"A", "I", "L", "M", "N", "O", "P", "R", "T">>
Lower == <<"a", "i", "l", "m", "n", "o", "p", "r", "t">>
Whitespace == {" ", "\t", "\n"}

\* str(v)
str(v) ==
  CASE v.kind = "str" -> v.val
    [] v.kind = "None" -> <<"N", "o", "n", "e">>
    [] v.kind = "nan" -> <<"n", "a", "n">>

RECURSIVE lstrip(_)
lstrip(s) ==
  IF s # <<>> /\ s[1] \in Whitespace THEN lstrip(Tail(s)) ELSE s

RECURSIVE rstrip(_)
rstrip(s) ==
  IF s # <<>> /\ s[Len(s)] \in Whitespace
    THEN rstrip(SubSeq(s, 1, Len(s) - 1))
    ELSE s

strip(s) == rstrip(lstrip(s))

lower(s) ==
  [i \in DOMAIN s |->
     IF \E k \in DOMAIN Upper : Upper[k] = s[i]
       THEN Lower[CHOOSE k \in DOMAIN Upper : Upper[k] = s[i]]
       ELSE s[i]]

positive_class == <<"o", "p", "t", "i", "m", "a", "l">>

\* row[actual_col] / row[predict_col] raises KeyError when the frame has no
\* such column; the except clause then skips the row
RowRaises(df, actual_col, predict_col) ==
  actual_col \notin df.columns \/ predict_col \notin df.columns

\* one iteration of the loop: the counters after the row
Tally(c, df, row, actual_col, predict_col) ==
  IF RowRaises(df, actual_col, predict_col) THEN c
  ELSE
    LET actual_value == lower(strip(str(row[actual_col])))
        predict_value == lower(strip(str(row[predict_col])))
        is_actual_positive == (actual_value = positive_class)
        is_predict_positive == (predict_value = positive_class)
    IN  IF is_predict_positive /\ is_actual_positive
          THEN [c EXCEPT !.tp = @ + 1]
        ELSE IF ~is_predict_positive /\ ~is_actual_positive
          THEN [c EXCEPT !.tn = @ + 1]
        ELSE IF is_predict_positive /\ ~is_actual_positive
          THEN [c EXCEPT !.fp = @ + 1]
        ELSE [c EXCEPT !.fn = @ + 1]

RECURSIVE Iterrows(_, _, _, _, _)
Iterrows(c, df, i, actual_col, predict_col) ==
  IF i > Len(df.rows) THEN c
  ELSE Iterrows(Tally(c, df, df.rows[i], actual_col, predict_col),
                df, i + 1, actual_col, predict_col)

perform_categorical_evaluation(df, actual_col, predict_col) ==
  LET c == Iterrows([tp |-> 0, tn |-> 0, fp |-> 0, fn |-> 0], df, 1,
                    actual_col, predict_col)
      total_data == c.tp + c.tn + c.fp + c.fn
  IN  IF total_data = 0
        THEN [error |-> TRUE, TP |-> 0, TN |-> 0, FP |-> 0, FN |-> 0,
              Akurasi |-> Zero, Presisi |-> Zero, Recall |-> Zero]
        ELSE [error |-> FALSE, TP |-> c.tp, TN |-> c.tn, FP |-> c.fp, FN |-> c.fn,
              Akurasi |-> Q(c.tp + c.tn, total_data),
              Presisi |-> IF c.tp + c.fp > 0 THEN Q(c.tp, c.tp + c.fp) ELSE Zero,
              Recall |-> IF c.tp + c.fn > 0 THEN Q(c.tp, c.tp + c.fn) ELSE Zero]

(***************************************************************************)
(* Inputs.                                                                 *)
(***************************************************************************)
\* the multiples of 1/Grid in [lo, hi]
GridSet(lo, hi) == {Q(k, Grid) : k \in (lo * Grid)..(hi * Grid)}

\* valid shapes: non-decreasing breakpoints, equalities allowed
TriangleParams ==
  {explode_array(p) : p \in
     {q \in (0..MaxParam) \X (0..MaxParam) \X (0..MaxParam) :
        q[1] <= q[2] /\ q[2] <= q[3]}}

TrapeziumParams ==
  {explode_array(p) : p \in
     {q \in (0..MaxParam) \X (0..MaxParam) \X (0..MaxParam) \X (0..MaxParam) :
        q[1] <= q[2] /\ q[2] <= q[3] /\ q[3] <= q[4]}}

ShapeInputs == GridSet(-1, MaxParam + 1)

\* sensor readings, inside and outside the range of each variable
PhInputs == GridSet(-1, 15)
TdsInputs == {Mul(ToFloat(100), x) : x \in GridSet(-1, 31)}
TempInputs == GridSet(-1, 46)

\* observations for the pipeline: below, at and above the ends of each range,
\* and the regions where neighbouring terms overlap
Rows ==
  [ph : {ToFloat(-1), ToFloat(0), ToFloat(14), ToFloat(15)} \cup GridSet(6, 8),
   tds : {ToFloat(-100), ToFloat(0), ToFloat(1200), ToFloat(3000), ToFloat(3100)}
           \cup {Mul(ToFloat(100), x) :
                   x \in GridSet(4, 6) \cup GridSet(9, 11) \cup GridSet(18, 20)},
   water_temp : {ToFloat(-1), ToFloat(0), ToFloat(45), ToFloat(46)}
                  \cup GridSet(23, 30)]

TdsTerms == DOMAIN TDS_RANGES
PhTerms == DOMAIN PH_RANGES
TempTerms == DOMAIN TEMPERATURE_RANGES

Degrees == {Q(k, DegDen) : k \in 0..DegDen}

\* complete degree mappings for the terms T
CompleteMaps(T) ==
  {m \in [T -> Degrees] : Cardinality({t \in T : m[t] # Zero}) <= MaxNonZero}

\* mappings that know only some of the terms of T (or all of them)
PartialMaps(T) == UNION {[D -> {One}] : D \in SUBSET T}

\* strengths and output levels as the rule engine produces them
FiringResults ==
  [firing_strength : {Q(k, 10) : k \in 0..MaxStrength},
   output : {ToFloat(1), ToFloat(2)}]

RuleSeqs == UNION {[1..n -> FiringResults] : n \in 0..MaxRules}

Cells ==
  {[kind |-> "str", val |-> <<" ", "O", "p", "t", "i", "m", "a", "l", " ">>],
   [kind |-> "str", val |-> <<"N", "o", "r", "m", "a", "l">>],
   [kind |-> "None", val |-> <<>>],
   [kind |-> "nan", val |-> <<>>]}

DataFrames ==
  UNION {[columns : {cols},
          rows : UNION {[1..n -> [cols -> Cells]] : n \in 0..MaxRows}] :
         cols \in SUBSET {"actual", "predicted"}}

(***************************************************************************)
(* State machine.  Init draws one call (the function and its arguments);   *)
(* the action of that function applies it.  exc is the exception the call  *)
(* raised, "none" if it returned.                                          *)
(***************************************************************************)
Call(f, a) == pc = "call" /\ op = f /\ arg = a /\ ret = None /\ exc = "none"

InitShape ==
  \/ \E x \in ShapeInputs, params \in TrapeziumParams :
       Call("fungsi_trapezium", [x |-> x, params |-> params])
  \/ \E x \in ShapeInputs, params \in TriangleParams :
       Call("fungsi_segitiga", [x |-> x, params |-> params])

InitFuzzify ==
  \/ \E x \in PhInputs : Call("ph_membership", x)
  \/ \E x \in TdsInputs : Call("tds_membership", x)
  \/ \E x \in TempInputs : Call("temp_membership", x)

InitRules ==
  \/ \E x1 \in CompleteMaps(TdsTerms), x2 \in CompleteMaps(PhTerms),
        x3 \in CompleteMaps(TempTerms) :
       Call("fuzzy_rules", [x1 |-> x1, x2 |-> x2, x3 |-> x3])
  \/ \E x1 \in PartialMaps(TdsTerms), x2 \in PartialMaps(PhTerms),
        x3 \in PartialMaps(TempTerms) :
       Call("fuzzy_rules", [x1 |-> x1, x2 |-> x2, x3 |-> x3])
  \/ \E rs \in RuleSeqs : Call("defuzzification", rs)

InitPipeline == \E row \in Rows : Call("get_z_result", row)

InitEval ==
  \E df \in DataFrames :
    Call("perform_categorical_evaluation",
         [df |-> df, actual_col |-> "actual", predict_col |-> "predicted"])

Init == InitShape \/ InitFuzzify \/ InitRules \/ InitPipeline \/ InitEval

Return(v) == pc' = "done" /\ ret' = v /\ exc' = "none" /\ UNCHANGED <<op, arg>>

Raise(e) == pc' = "done" /\ exc' = e /\ UNCHANGED <<op, arg, ret>>

Trapezium ==
  /\ pc = "call" /\ op = "fungsi_trapezium"
  /\ Return(fungsi_trapezium(arg.x, arg.params))

Segitiga ==
  /\ pc = "call" /\ op = "fungsi_segitiga"
  /\ Return(fungsi_segitiga(arg.x, arg.params))

PhMembership ==
  /\ pc = "call" /\ op = "ph_membership"
  /\ Return(ph_membership(arg))

TdsMembership ==
  /\ pc = "call" /\ op = "tds_membership"
  /\ Return(tds_membership(arg))

TempMembership ==
  /\ pc = "call" /\ op = "temp_membership"
  /\ Return(temp_membership(arg))

FuzzyRules ==
  /\ pc = "call" /\ op = "fuzzy_rules"
  /\ IF fuzzy_rules_raises(arg.x1, arg.x2, arg.x3)
       THEN Raise("TypeError")
       ELSE Return(fuzzy_rules(arg.x1, arg.x2, arg.x3))

Defuzzification ==
  /\ pc = "call" /\ op = "defuzzification"
  /\ Return(defuzzification(arg))

\* the results of fuzzy_rules are consumed by defuzzification
DefuzzifyResults ==
  /\ pc = "done" /\ op = "fuzzy_rules" /\ exc = "none"
  /\ pc' = "done" /\ op' = "defuzzification" /\ arg' = ret
  /\ ret' = defuzzification(ret) /\ exc' = "none"

GetZResult ==
  /\ pc = "call" /\ op = "get_z_result"
  /\ IF get_z_result_raises(arg)
       THEN Raise("TypeError")
       ELSE Return(get_z_result(arg))

Evaluate ==
  /\ pc = "call" /\ op = "perform_categorical_evaluation"
  /\ Return(perform_categorical_evaluation(arg.df, arg.actual_col, arg.predict_col))

NextShape == Trapezium \/ Segitiga
NextFuzzify == PhMembership \/ TdsMembership \/ TempMembership
NextRules == FuzzyRules \/ Defuzzification \/ DefuzzifyResults
NextPipeline == GetZResult
NextEval == Evaluate

Next == NextShape \/ NextFuzzify \/ NextRules \/ NextPipeline \/ NextEval

Spec == Init /\ [][Next]_vars
SpecShape == InitShape /\ [][NextShape]_vars
SpecFuzzify == InitFuzzify /\ [][NextFuzzify]_vars
SpecRules == InitRules /\ [][NextRules]_vars
SpecPipeline == InitPipeline /\ [][NextPipeline]_vars
SpecEval == InitEval /\ [][NextEval]_vars

(***************************************************************************)
(* Properties.                                                             *)
(***************************************************************************)
Done(f) == pc = "done" /\ op = f

Between(lo, x, hi) == Leq(lo, x) /\ Leq(x, hi)

ZeroRow == [ph |-> ToFloat(0), tds |-> ToFloat(0), water_temp |-> ToFloat(0)]
OptimalRow == [ph |-> ToFloat(7), tds |-> ToFloat(1200), water_temp |-> ToFloat(27)]

\* the firing results of the rule engine for an observation
RowResults(row) ==
  fuzzy_rules(tds_membership(row.tds), ph_membership(row.ph),
              temp_membership(row.water_temp))

\* C1: get_z_result for ph=0, tds=0, water_temp=0 returns exactly 1.0: some
\* level-1 rule fires with non-zero strength and the level-2 rule does not fire.
C1_ZeroRowYieldsOne ==
  (Done("get_z_result") /\ arg = ZeroRow) =>
    /\ exc = "none"
    /\ ret = One
    /\ \E i \in DOMAIN RowResults(arg) :
         /\ RowResults(arg)[i].output = One
         /\ RowResults(arg)[i].firing_strength # Zero
    /\ RowResults(arg)[23].firing_strength = Zero

\* C2 (as stated): for every a <= b <= c <= d, equalities allowed,
\* fungsi_trapezium returns 0 at x = a, 1 for every x in [b, c], 0 at x = d.
C2_TrapeziumAllShapes ==
  Done("fungsi_trapezium") =>
    LET a == arg.params[1]
        b == arg.params[2]
        c == arg.params[3]
        d == arg.params[4]
    IN  /\ arg.x = a => ret = Zero
        /\ Between(b, arg.x, c) => ret = One
        /\ arg.x = d => ret = Zero

\* C2 (amended): for every a < b <= c < d, fungsi_trapezium returns 0 at
\* x = a, 1 for every x in [b, c], 0 at x = d.
C2_TrapeziumProperEdges ==
  Done("fungsi_trapezium") =>
    LET a == arg.params[1]
        b == arg.params[2]
        c == arg.params[3]
        d == arg.params[4]
    IN  (Lt(a, b) /\ Lt(c, d)) =>
          /\ arg.x = a => ret = Zero
          /\ Between(b, arg.x, c) => ret = One
          /\ arg.x = d => ret = Zero

C2_Witness ==
  /\ Done("fungsi_trapezium")
  /\ Lt(arg.params[1], arg.params[2])
  /\ Lt(arg.params[2], arg.params[3])
  /\ Lt(arg.params[3], arg.params[4])
  /\ arg.x = arg.params[2]
  /\ ret = One

\* the value of the triangle at x = b and its monotonicity on both sides,
\* for the call recorded in the state
TriangleProfile ==
  LET a == arg.params[1]
      b == arg.params[2]
      c == arg.params[3]
      f(y) == fungsi_segitiga(y, arg.params)
  IN  /\ arg.x = a => ret = Zero
      /\ arg.x = b => ret = One
      /\ arg.x = c => ret = Zero
      /\ \A y \in ShapeInputs :
           /\ (Leq(a, y) /\ Leq(y, arg.x) /\ Leq(arg.x, b)) => Leq(f(y), ret)
           /\ (Leq(b, arg.x) /\ Leq(arg.x, y) /\ Leq(y, c)) => Leq(f(y), ret)

\* C3 (as stated): for every a <= b <= c, equalities allowed, fungsi_segitiga
\* returns 0 at x = a, 1 at x = b, 0 at x = c, is non-decreasing on [a, b] and
\* non-increasing on [b, c].
C3_SegitigaAllShapes == Done("fungsi_segitiga") => TriangleProfile

\* C3 (amended): for every a < b < c, fungsi_segitiga returns 0 at x = a, 1 at
\* x = b, 0 at x = c, is non-decreasing on [a, b] and non-increasing on [b, c].
C3_SegitigaProperEdges ==
  (/\ Done("fungsi_segitiga")
   /\ Lt(arg.params[1], arg.params[2])
   /\ Lt(arg.params[2], arg.params[3])) => TriangleProfile

C3_Witness ==
  /\ Done("fungsi_segitiga")
  /\ Lt(arg.params[1], arg.x)
  /\ Lt(arg.x, arg.params[2])
  /\ Lt(arg.params[2], arg.params[3])
  /\ Lt(Zero, ret)
  /\ Lt(ret, One)

\* C4: a zero-width edge (a = b, or the last two breakpoints equal) is a step:
\* at that boundary the scalar membership functions return 1.0, and for no x
\* do they divide by zero or return an undefined value.
C4_ZeroWidthEdgeIsStep ==
  (Done("fungsi_trapezium") \/ Done("fungsi_segitiga")) =>
    LET n == Len(arg.params)
    IN  /\ IsNum(ret)
        /\ (arg.params[1] = arg.params[2] /\ arg.x = arg.params[1]) => ret = One
        /\ (arg.params[n - 1] = arg.params[n] /\ arg.x = arg.params[n]) => ret = One

\* every term of the table has a degree, a number in [0, 1]
DegreesOf(table, m) ==
  /\ DOMAIN m = DOMAIN table
  /\ \A t \in DOMAIN table : IsNum(m[t]) /\ Between(Zero, m[t], One)

\* C5: for every finite x, inside or outside the range, ph_membership,
\* tds_membership and temp_membership return a mapping with an entry for every
\* term of the table, each a number in [0, 1], never None.
C5_DegreesInUnitInterval ==
  /\ Done("ph_membership") => (exc = "none" /\ DegreesOf(PH_RANGES, ret))
  /\ Done("tds_membership") => (exc = "none" /\ DegreesOf(TDS_RANGES, ret))
  /\ Done("temp_membership") => (exc = "none" /\ DegreesOf(TEMPERATURE_RANGES, ret))

C5_Witness ==
  /\ Done("tds_membership")
  /\ \E t \in DOMAIN ret : Lt(Zero, ret[t]) /\ Lt(ret[t], One)
  /\ \E t \in DOMAIN ret : ret[t] = Zero

\* the terms of each variable in the order of its table
TdsOrder == <<"Sangat Rendah", "Rendah", "Optimal", "Tinggi">>
PhOrder == <<"Asam", "Optimal", "Basa">>
TempOrder == <<"Dingin", "Optimal", "Panas">>

\* m is the least of p, q, r
IsLeast(m, p, q, r) ==
  /\ m \in {p, q, r}
  /\ Leq(m, p) /\ Leq(m, q) /\ Leq(m, r)

\* C6: given complete degree mappings, fuzzy_rules returns exactly 36 results,
\* one per combination of the 4 TDS x 3 pH x 3 temperature terms in table
\* order; the result for (t, p, s) has firing_strength
\* min(0.6*x1[t], 0.2*x2[p], 0.2*x3[s]) and output 2 if t, p and s are all
\* "Optimal", otherwise output 1.
C6_OneResultPerCombination ==
  (/\ Done("fuzzy_rules")
   /\ DOMAIN arg.x1 = TdsTerms /\ DOMAIN arg.x2 = PhTerms
   /\ DOMAIN arg.x3 = TempTerms) =>
    /\ exc = "none"
    /\ Len(ret) = 36
    /\ \A i \in 1..4, j \in 1..3, k \in 1..3 :
         LET r == ret[9 * (i - 1) + 3 * (j - 1) + k]
             t == TdsOrder[i]
             p == PhOrder[j]
             s == TempOrder[k]
         IN  /\ IsLeast(r.firing_strength, Mul(Q(6, 10), arg.x1[t]),
                        Mul(Q(2, 10), arg.x2[p]), Mul(Q(2, 10), arg.x3[s]))
             /\ r.output = IF t = "Optimal" /\ p = "Optimal" /\ s = "Optimal"
                             THEN ToFloat(2) ELSE ToFloat(1)

C6_Witness ==
  /\ Done("fuzzy_rules")
  /\ DOMAIN arg.x1 = TdsTerms /\ DOMAIN arg.x2 = PhTerms
  /\ DOMAIN arg.x3 = TempTerms
  /\ arg.x1["Optimal"] = Q(1, 2) /\ arg.x2["Optimal"] = One
  /\ arg.x3["Optimal"] = One
  /\ Len(ret) = 36
  /\ ret[23] = [firing_strength |-> Q(2, 10), output |-> ToFloat(2)]

Sentinel == <<[firing_strength |-> Zero, output |-> Zero]>>

\* r is q rounded to 2 decimal places: a multiple of 1/100 within 1/200 of q
IsRounded2(r, q) ==
  \E k \in -300..300 :
    /\ r = Q(k, 100)
    /\ 2 * Abs(k * q[2] - 100 * q[1]) <= q[2]

\* C7: defuzzification returns exactly 0 and does not raise for every sequence
\* whose firing strengths are all zero, the sentinel result of fuzzy_rules
\* included; for every other sequence it returns
\* sum(strength*output)/sum(strength) rounded to 2 decimal places.
C7_DefuzzificationTotal ==
  Done("defuzzification") =>
    LET num == sum([i \in DOMAIN arg |-> Mul(arg[i].firing_strength, arg[i].output)])
        den == sum([i \in DOMAIN arg |-> arg[i].firing_strength])
    IN  /\ exc = "none"
        /\ (\A i \in DOMAIN arg : arg[i].firing_strength = Zero) => ret = Zero
        /\ (\E i \in DOMAIN arg : arg[i].firing_strength # Zero) =>
             IsRounded2(ret, Div(num, den))

C7_Witness ==
  /\ Done("defuzzification")
  /\ arg = Sentinel
  /\ ret = Zero
  /\ exc = "none"

\* C8: get_z_result for ph=7, tds=1200, water_temp=27 returns a value >= 1.8:
\* the level-2 rule (Optimal, Optimal, Optimal) fires and dominates.
C8_OptimalRowIsNormal ==
  (Done("get_z_result") /\ arg = OptimalRow) =>
    /\ exc = "none"
    /\ Leq(Q(18, 10), ret)
    /\ RowResults(arg)[23].firing_strength # Zero

C8_Witness ==
  /\ Done("get_z_result")
  /\ arg = OptimalRow
  /\ ret = ToFloat(2)

MissingCell(v) == v.kind \in {"None", "nan"}

\* the rows of the frame whose two labels are both present
ValidRows(a) ==
  {i \in DOMAIN a.df.rows :
     /\ a.actual_col \in a.df.columns /\ a.predict_col \in a.df.columns
     /\ ~MissingCell(a.df.rows[i][a.actual_col])
     /\ ~MissingCell(a.df.rows[i][a.predict_col])}

\* C9: a row whose actual or predicted label is missing is skipped: it
\* increments none of TP, TN, FP, FN; so an input without a valid row returns
\* the structured error result, and the function does not raise.
C9_MissingLabelsAreSkipped ==
  Done("perform_categorical_evaluation") =>
    /\ exc = "none"
    /\ ret.TP + ret.TN + ret.FP + ret.FN = Cardinality(ValidRows(arg))
    /\ ValidRows(arg) = {} => ret.error

\* C10: the value returned by get_z_result is either exactly 0 or lies in
\* [1, 2]; it is 0 exactly when every one of the 36 rules has firing strength 0.
C10_ResultIsZeroOrInOneTwo ==
  Done("get_z_result") =>
    LET rs == RowResults(arg)
        strengths == {rs[i].firing_strength : i \in DOMAIN rs}
    IN  /\ exc = "none"
        /\ ret = Zero \/ Between(One, ret, ToFloat(2))
        /\ Len(rs) = 36
        /\ ret = Zero <=> strengths = {Zero}

C10_Witness ==
  /\ Done("get_z_result")
  /\ Lt(One, ret)
  /\ Lt(ret, ToFloat(2))

====
